---- MODULE Spec2Model ----
(***************************************************************************)
(* Model of ParseHeaderTemplate of combo23/http-template.                  *)
(*                                                                         *)
(* The repository holds two near-duplicate implementations of the same     *)
(* function: src/template.go (package headerloader), which suppresses both *)
(* "cookie" and "content-length" from the value map, and src/parser.go     *)
(* (package http_template), which suppresses only "cookie".  Both are      *)
(* modelled and run side by side on the same rendered text: the variable   *)
(* tpl holds the locals of the template.go call, prs those of the          *)
(* parser.go call.                                                         *)
(*                                                                         *)
(* Strings are sequences of one-character strings, so that trimming,       *)
(* colon search, slicing, lower-casing and line scanning are computed      *)
(* character by character as the Go code computes them.                    *)
(***************************************************************************)
EXTENDS Integers, Sequences, FiniteSets

(***************************************************************************)
(* Bounds of the model.                                                    *)
(***************************************************************************)
\* Largest number of lines after the request line in a rendered text.
MaxLines == 3
\* Stand-in for bufio.MaxScanTokenSize (64*1024 in the Go library), scaled
\* down: a line of this many bytes or more makes Scan fail with ErrTooLong.
MaxScanTokenSize == 18

(***************************************************************************)
(* String literals of the program.                                         *)
(***************************************************************************)
\* http.PHeaderOrderKey and http.HeaderOrderKey of bogdanfinn/fhttp.
PHeaderOrderKey == <<"P", "H", "e", "a", "d", "e", "r", "-", "O", "r", "d", "e", "r", ":">>
HeaderOrderKey == <<"H", "e", "a", "d", "e", "r", "-", "O", "r", "d", "e", "r", ":">>
cookie == <<"c", "o", "o", "k", "i", "e">>
contentLength == <<"c", "o", "n", "t", "e", "n", "t", "-", "l", "e", "n", "g", "t", "h">>

(***************************************************************************)
(* The string functions the program calls.                                 *)
(***************************************************************************)
Min(S) == CHOOSE x \in S : \A y \in S : x <= y
Max(S) == CHOOSE x \in S : \A y \in S : x >= y

\* unicode.IsSpace restricted to the one-byte characters.
IsSpace(c) == c \in {" ", "\t", "\n", "\r", "\f"}

\* strings.TrimSpace: the string without leading and trailing white space.
TrimSpace(s) ==
    LET I == {i \in 1..Len(s) : ~IsSpace(s[i])}
    IN  IF I = {} THEN <<>> ELSE SubSeq(s, Min(I), Max(I))

\* strings.IndexByte: 0-based index of the first c in s, -1 when absent.
IndexByte(s, c) ==
    LET I == {i \in 1..Len(s) : s[i] = c}
    IN  IF I = {} THEN -1 ELSE Min(I) - 1

\* Go slice expressions s[lo:hi] and s[lo:] with 0-based offsets.
Slice(s, lo, hi) == SubSeq(s, lo + 1, hi)
SliceFrom(s, lo) == SubSeq(s, lo + 1, Len(s))

\* strings.HasPrefix.
HasPrefix(s, p) == Len(s) >= Len(p) /\ SubSeq(s, 1, Len(p)) = p

UpperLetters == <<"A", "B", "C", "D", "E", "F", "G", "H", "I", "J", "K", "L", "M",
                  "N", "O", "P", "Q", "R", "S", "T", "U", "V", "W", "X", "Y", "Z">>
LowerLetters == <<"a", "b", "c", "d", "e", "f", "g", "h", "i", "j", "k", "l", "m",
                  "n", "o", "p", "q", "r", "s", "t", "u", "v", "w", "x", "y", "z">>

\* unicode.ToLower on the upper-case letters.
LowerOf ==
    [c \in {UpperLetters[j] : j \in 1..26} |->
        LowerLetters[CHOOSE j \in 1..26 : UpperLetters[j] = c]]

\* strings.ToLower.
ToLower(s) ==
    [i \in 1..Len(s) |-> IF s[i] \in DOMAIN LowerOf THEN LowerOf[s[i]] ELSE s[i]]

(***************************************************************************)
(* http.Header: a map from key to a list of strings.                       *)
(***************************************************************************)
EmptyHeader == [k \in {} |-> <<>>]
HasKey(h, k) == k \in DOMAIN h
Put(h, k, v) == [x \in (DOMAIN h) \cup {k} |-> IF x = k THEN v ELSE h[x]]

\* A returned http.Header value: nil, or a map.
NilHeader == [isNil |-> TRUE, map |-> EmptyHeader]
Returned(h) == [isNil |-> FALSE, map |-> h]

(***************************************************************************)
(* bufio.Scanner over strings.NewReader(processedStr), split by ScanLines. *)
(***************************************************************************)
NewScanner == [pos |-> 0, token |-> <<>>, err |-> FALSE]

\* dropCR of bufio.ScanLines: one trailing carriage return is removed.
DropCR(s) == IF Len(s) > 0 /\ s[Len(s)] = "\r" THEN SubSeq(s, 1, Len(s) - 1) ELSE s

\* scanner.Scan(): ok tells whether a token was produced; sc is the scanner
\* afterwards.  At the end of the text, and after an error, Scan yields
\* false.  A line is the text up to the next newline, or the unterminated
\* rest of the text.  A line that does not fit into the scanner's buffer
\* sets the error ErrTooLong (the only failure a strings.Reader can cause).
Scan(sc, text) ==
    IF sc.err \/ sc.pos >= Len(text)
    THEN [ok |-> FALSE, sc |-> sc]
    ELSE LET rest == SliceFrom(text, sc.pos)
             nl   == IndexByte(rest, "\n")
             raw  == IF nl = -1 THEN rest ELSE Slice(rest, 0, nl)
             adv  == IF nl = -1 THEN Len(rest) ELSE nl + 1
         IN  IF Len(raw) >= MaxScanTokenSize
             THEN [ok |-> FALSE, sc |-> [sc EXCEPT !.err = TRUE]]
             ELSE [ok |-> TRUE,
                   sc |-> [pos |-> sc.pos + adv, token |-> DropCR(raw), err |-> FALSE]]

(***************************************************************************)
(* The body of the scan loop up to the "key == ''" test: what key and      *)
(* value a line yields, or that the line is skipped.  The code is the same *)
(* in both files.                                                          *)
(***************************************************************************)
SkipLine == [skip |-> TRUE, key |-> <<>>, value |-> <<>>]

\* The pseudo-header branch: ":name: value" or ":name".
PseudoKeyValue(potentialValuePart) ==
    LET secondColonIdxInPVP == IndexByte(potentialValuePart, ":")
        actualPseudoKeyNamePart ==
            IF secondColonIdxInPVP = -1
            THEN TrimSpace(potentialValuePart)
            ELSE TrimSpace(Slice(potentialValuePart, 0, secondColonIdxInPVP))
        value ==
            IF secondColonIdxInPVP = -1
            THEN <<>>
            ELSE IF secondColonIdxInPVP < Len(potentialValuePart) - 1
                 THEN TrimSpace(SliceFrom(potentialValuePart, secondColonIdxInPVP + 1))
                 ELSE <<>>
    IN  [key   |-> IF actualPseudoKeyNamePart = <<>>
                   THEN <<":">>
                   ELSE <<":">> \o actualPseudoKeyNamePart,
         value |-> value]

\* The regular-header branch.
RegularKeyValue(potentialKeyPart, potentialValuePart) ==
    [key |-> TrimSpace(potentialKeyPart), value |-> TrimSpace(potentialValuePart)]

ParseLine(line) ==
    LET trimmedLine == TrimSpace(line)
        firstColonIdx == IndexByte(trimmedLine, ":")
        potentialKeyPart == Slice(trimmedLine, 0, firstColonIdx)
        potentialValuePart ==
            IF firstColonIdx < Len(trimmedLine) - 1
            THEN SliceFrom(trimmedLine, firstColonIdx + 1)
            ELSE <<>>
        kv == IF TrimSpace(potentialKeyPart) = <<>> /\ HasPrefix(trimmedLine, <<":">>)
              THEN PseudoKeyValue(potentialValuePart)
              ELSE RegularKeyValue(potentialKeyPart, potentialValuePart)
    IN  IF trimmedLine = <<>> THEN SkipLine
        ELSE IF firstColonIdx = -1 THEN SkipLine
        ELSE IF kv.key = <<>> THEN SkipLine
        ELSE [skip |-> FALSE, key |-> kv.key, value |-> kv.value]

(***************************************************************************)
(* The collection step of the scan loop.  st is the record of the locals   *)
(* of one call.                                                            *)
(***************************************************************************)
\* Variant: a repeated key overwrites its value list.
AddToMap_Overwrite(st, key, value) ==
    IF HasKey(st.outputHeaders, key)
    THEN [st EXCEPT !.outputHeaders = Put(@, key, <<value>>)]
    ELSE [st EXCEPT !.outputHeaders = Put(@, key, <<value>>),
                    !.insertionOrder = Append(@, key)]

\* outputHeaders[key] = append(existingValues, value), or a new list.  The
\* field insertionOrder records the keys in the order the map first
\* received them (the "else" branch that creates the entry).
AddToMap(st, key, value) ==
    IF HasKey(st.outputHeaders, key)
    THEN [st EXCEPT !.outputHeaders = Put(@, key, Append(st.outputHeaders[key], value))]
    ELSE [st EXCEPT !.outputHeaders = Put(@, key, <<value>>),
                    !.insertionOrder = Append(@, key)]

AppendPseudo(st, key) == [st EXCEPT !.pseudoHeaderOrder = Append(@, key)]
\* Variant: the key is put in front of the list.
AppendRegular_Prepend(st, key) == [st EXCEPT !.regularHeaderOrder = <<key>> \o @]
AppendRegular(st, key) == [st EXCEPT !.regularHeaderOrder = Append(@, key)]

\* Variant: the flag is not consulted, every cookie line is recorded.
CollectCookie_NoDedup(st, key) ==
    [AppendRegular(st, key) EXCEPT !.cookieHeaderAddedToOrder = TRUE]

\* The cookie branch, the same in both files.
CollectCookie(st, key) ==
    IF ~st.cookieHeaderAddedToOrder
    THEN [AppendRegular(st, key) EXCEPT !.cookieHeaderAddedToOrder = TRUE]
    ELSE st

\* Variant: the cookie case is missing.
CollectParser_NoCookieCase(st, key, value) ==
    IF HasPrefix(key, <<":">>)
    THEN AppendPseudo(st, key)
    ELSE AddToMap(AppendRegular(st, key), key, value)

\* src/parser.go: only cookie is suppressed from the map.
CollectParser(st, key, value) ==
    IF HasPrefix(key, <<":">>)
    THEN AppendPseudo(st, key)
    ELSE LET isCookieHeader == ToLower(key) = cookie
         IN  IF isCookieHeader THEN CollectCookie(st, key)
             ELSE AddToMap(AppendRegular(st, key), key, value)

\* Variant: the content-length case is missing.
CollectTemplate_NoContentLengthCase(st, key, value) ==
    IF HasPrefix(key, <<":">>)
    THEN AppendPseudo(st, key)
    ELSE LET lowerKey == ToLower(key)
         IN  IF lowerKey = cookie THEN CollectCookie(st, key)
             ELSE AddToMap(AppendRegular(st, key), key, value)

\* Variant: an ordinary header is put into the map, not into the order list.
CollectTemplate_MapOnly(st, key, value) ==
    IF HasPrefix(key, <<":">>)
    THEN AppendPseudo(st, key)
    ELSE LET lowerKey == ToLower(key)
         IN  IF lowerKey = cookie THEN CollectCookie(st, key)
             ELSE IF lowerKey = contentLength THEN AppendRegular(st, key)
             ELSE AddToMap(st, key, value)

\* src/template.go: cookie and content-length are suppressed from the map.
CollectTemplate(st, key, value) ==
    IF HasPrefix(key, <<":">>)
    THEN AppendPseudo(st, key)
    ELSE LET lowerKey == ToLower(key)
         IN  IF lowerKey = cookie THEN CollectCookie(st, key)
             ELSE IF lowerKey = contentLength THEN AppendRegular(st, key)
             ELSE AddToMap(AppendRegular(st, key), key, value)

\* Variant: a pseudo-header is also stored in the map with its value.
Collect_StoresPseudo(impl, st, key, value) ==
    LET s1 == IF impl = "template" THEN CollectTemplate(st, key, value)
              ELSE CollectParser(st, key, value)
    IN  IF HasPrefix(key, <<":">>) THEN AddToMap(s1, key, value) ELSE s1

Collect(impl, st, key, value) ==
    IF impl = "template" THEN CollectTemplate(st, key, value)
    ELSE CollectParser(st, key, value)

(***************************************************************************)
(* The steps of one call.  pc is the position of the call:                 *)
(*   "parse"    before template.New(...).Parse(templateStr)                *)
(*   "execute"  before tmpl.Execute                                        *)
(*   "first"    before the Scan that skips the request line                *)
(*   "loop"     at the head of "for scanner.Scan()"                        *)
(*   "done"     returned                                                   *)
(***************************************************************************)
NoErr == "nil"

Start ==
    [pc |-> "parse", processedStr |-> <<>>, scanner |-> NewScanner,
     outputHeaders |-> EmptyHeader, insertionOrder |-> <<>>,
     pseudoHeaderOrder |-> <<>>, regularHeaderOrder |-> <<>>,
     cookieHeaderAddedToOrder |-> FALSE,
     headers |-> NilHeader, err |-> NoErr]

Return(st, h, e) == [st EXCEPT !.pc = "done", !.headers = h, !.err = e]

\* template.New("httpHeaderTemplate").Parse(templateStr) and its error check.
StepParse(st, outcome) ==
    IF outcome = "parse_error"
    THEN Return(st, NilHeader, "failed to parse template string")
    ELSE [st EXCEPT !.pc = "execute"]

\* tmpl.Execute, its error check, and the declarations of the locals.
StepExecute(st, outcome, text) ==
    IF outcome = "execute_error"
    THEN Return(st, NilHeader, "failed to execute template")
    ELSE [st EXCEPT !.pc = "first", !.processedStr = text, !.scanner = NewScanner,
                    !.outputHeaders = EmptyHeader, !.insertionOrder = <<>>,
                    !.pseudoHeaderOrder = <<>>, !.regularHeaderOrder = <<>>,
                    !.cookieHeaderAddedToOrder = FALSE]

\* Variant: the request line is looked at but stays in front of the loop.
StepFirst_KeepsLine(st) ==
    LET r == Scan(st.scanner, st.processedStr)
    IN  IF ~r.ok
        THEN IF r.sc.err
             THEN Return([st EXCEPT !.scanner = r.sc], NilHeader,
                         "error reading the first line")
             ELSE Return([st EXCEPT !.scanner = r.sc], Returned(st.outputHeaders), NoErr)
        ELSE [st EXCEPT !.pc = "loop"]

\* "if !scanner.Scan() { ... }": the request line is read and dropped.
StepFirst(st) ==
    LET r == Scan(st.scanner, st.processedStr)
    IN  IF ~r.ok
        THEN IF r.sc.err
             THEN Return([st EXCEPT !.scanner = r.sc], NilHeader,
                         "error reading the first line")
             ELSE Return([st EXCEPT !.scanner = r.sc], Returned(st.outputHeaders), NoErr)
        ELSE [st EXCEPT !.pc = "loop", !.scanner = r.sc]

\* Variant: the order lists are attached whether empty or not.
Finish_AlwaysAttach(st) ==
    IF st.scanner.err
    THEN Return(st, NilHeader, "error scanning lines from processed template")
    ELSE LET h2 == Put(Put(st.outputHeaders, PHeaderOrderKey, st.pseudoHeaderOrder),
                       HeaderOrderKey, st.regularHeaderOrder)
         IN  Return([st EXCEPT !.outputHeaders = h2], Returned(h2), NoErr)

\* Variant: a scan failure is reported together with what was accumulated.
Finish_ReturnsPartial(st) ==
    IF st.scanner.err
    THEN Return(st, Returned(st.outputHeaders),
                "error scanning lines from processed template")
    ELSE LET h1 == IF Len(st.pseudoHeaderOrder) > 0
                   THEN Put(st.outputHeaders, PHeaderOrderKey, st.pseudoHeaderOrder)
                   ELSE st.outputHeaders
             h2 == IF Len(st.regularHeaderOrder) > 0
                   THEN Put(h1, HeaderOrderKey, st.regularHeaderOrder)
                   ELSE h1
         IN  Return([st EXCEPT !.outputHeaders = h2], Returned(h2), NoErr)

\* What follows the loop: the scanner's error, then the two order lists are
\* attached when they are not empty.
Finish(st) ==
    IF st.scanner.err
    THEN Return(st, NilHeader, "error scanning lines from processed template")
    ELSE LET h1 == IF Len(st.pseudoHeaderOrder) > 0
                   THEN Put(st.outputHeaders, PHeaderOrderKey, st.pseudoHeaderOrder)
                   ELSE st.outputHeaders
             h2 == IF Len(st.regularHeaderOrder) > 0
                   THEN Put(h1, HeaderOrderKey, st.regularHeaderOrder)
                   ELSE h1
         IN  Return([st EXCEPT !.outputHeaders = h2], Returned(h2), NoErr)

\* One evaluation of "for scanner.Scan()": either one line is processed, or
\* the loop ends and the call returns.
StepLoop(impl, st) ==
    LET r == Scan(st.scanner, st.processedStr)
    IN  IF ~r.ok
        THEN Finish([st EXCEPT !.scanner = r.sc])
        ELSE LET line == r.sc.token
                 p    == ParseLine(line)
                 s1   == [st EXCEPT !.scanner = r.sc]
             IN  IF p.skip THEN s1 ELSE Collect(impl, s1, p.key, p.value)

\* The scanning part of a call, step by step, up to its return.
Step(impl, st) ==
    IF st.pc = "first" THEN StepFirst(st) ELSE StepLoop(impl, st)

RECURSIVE RunFrom(_, _)
RunFrom(impl, st) ==
    IF st.pc = "done" THEN st ELSE RunFrom(impl, Step(impl, st))

\* The whole call of ParseHeaderTemplate on a template that renders text.
Call(impl, text) ==
    RunFrom(impl, StepExecute(StepParse(Start, "ok"), "ok", text))

(***************************************************************************)
(* Rendered texts.                                                         *)
(***************************************************************************)
L_A1 == <<"A", ":", " ", "1">>
L_aXY == <<"a", ":", "x", ":", "y">>
L_A_empty == <<" ", "A", " ", ":">>
L_Cookie == <<"C", "o", "o", "k", "i", "e", ":", " ", "c">>
L_cookie == <<"c", "o", "o", "k", "i", "e", ":", " ", "d", "\r">>
L_ContentLength == <<"C", "o", "n", "t", "e", "n", "t", "-", "L", "e", "n", "g", "t", "h", ":", " ", "5">>
L_contentlength == <<"c", "o", "n", "t", "e", "n", "t", "-", "l", "e", "n", "g", "t", "h", ":", "7">>
L_method == <<":", "m", "e", "t", "h", "o", "d", ":", " ", "G", "E", "T">>
L_path == <<":", " ", "p">>
L_blank == <<" ", " ">>
L_nocolon == <<"n">>
\* A header line of exactly MaxScanTokenSize bytes: "L: 00...0".
L_long == [i \in 1..MaxScanTokenSize |->
             IF i = 1 THEN "L" ELSE IF i = 2 THEN ":" ELSE IF i = 3 THEN " " ELSE "0"]

R_GET == <<"G", "E", "T", " ", "/">>
R_header == <<"H", ":", " ", "v">>
R_pseudo == <<":", "h", ":", " ", "v">>

BodyLines == {L_A1, L_aXY, L_A_empty, L_Cookie, L_cookie, L_ContentLength,
              L_contentlength, L_method, L_path, L_blank, L_nocolon, L_long}
FirstLines == {R_GET, R_header, R_pseudo, L_long}

RECURSIVE JoinLines(_)
\* Every line of the sequence preceded by a newline.
JoinLines(ls) ==
    IF ls = <<>> THEN <<>> ELSE <<"\n">> \o Head(ls) \o JoinLines(Tail(ls))

\* The sequences of at most n body lines.
Bodies(n) == UNION {[1..m -> BodyLines] : m \in 0..n}

\* The rendered texts: the empty text; the usual request line followed by at
\* most MaxLines lines, each ended by a newline; and, with fewer than
\* MaxLines lines, any of the first lines, the last line with or without its
\* newline.
Texts ==
    {<<>>}
    \cup {R_GET \o JoinLines(body) \o <<"\n">> : body \in Bodies(MaxLines)}
    \cup {first \o JoinLines(body) \o end :
            first \in FirstLines, body \in Bodies(MaxLines - 1), end \in {<<>>, <<"\n">>}}

Outcomes == {"ok", "parse_error", "execute_error"}

(***************************************************************************)
(* The state machine.                                                      *)
(***************************************************************************)
VARIABLES
    templateOutcome,  \* what text/template does with templateStr and templateData
    rendered,         \* the text that Execute writes into processedStringBuffer
    tpl,              \* the call of ParseHeaderTemplate of src/template.go
    prs               \* the call of ParseHeaderTemplate of src/parser.go

vars == <<templateOutcome, rendered, tpl, prs>>

\* A template that does not parse renders nothing; one that fails in Execute
\* has written some part of its text before it failed.
PartialTexts == {<<>>, R_GET, R_GET \o JoinLines(<<L_A1, L_method>>)}

Init ==
    /\ templateOutcome \in Outcomes
    /\ rendered \in (CASE templateOutcome = "parse_error" -> {<<>>}
                      [] templateOutcome = "execute_error" -> PartialTexts
                      [] OTHER -> Texts)
    /\ tpl = Start
    /\ prs = Start

ParseTemplate ==
    /\ tpl.pc = "parse" /\ prs.pc = "parse"
    /\ tpl' = StepParse(tpl, templateOutcome)
    /\ prs' = StepParse(prs, templateOutcome)
    /\ UNCHANGED <<templateOutcome, rendered>>

ExecuteTemplate ==
    /\ tpl.pc = "execute" /\ prs.pc = "execute"
    /\ tpl' = StepExecute(tpl, templateOutcome, rendered)
    /\ prs' = StepExecute(prs, templateOutcome, rendered)
    /\ UNCHANGED <<templateOutcome, rendered>>

\* The first Scan yields the request line.
SkipFirstLine ==
    /\ tpl.pc = "first" /\ prs.pc = "first"
    /\ Scan(tpl.scanner, tpl.processedStr).ok
    /\ Scan(prs.scanner, prs.processedStr).ok
    /\ tpl' = StepFirst(tpl)
    /\ prs' = StepFirst(prs)
    /\ UNCHANGED <<templateOutcome, rendered>>

\* The first Scan yields nothing: empty text, or a failure.
NoFirstLine ==
    /\ tpl.pc = "first" /\ prs.pc = "first"
    /\ ~Scan(tpl.scanner, tpl.processedStr).ok
    /\ ~Scan(prs.scanner, prs.processedStr).ok
    /\ tpl' = StepFirst(tpl)
    /\ prs' = StepFirst(prs)
    /\ UNCHANGED <<templateOutcome, rendered>>

\* One iteration of the scan loop.
ScanLine ==
    /\ tpl.pc = "loop" /\ prs.pc = "loop"
    /\ Scan(tpl.scanner, tpl.processedStr).ok
    /\ Scan(prs.scanner, prs.processedStr).ok
    /\ tpl' = StepLoop("template", tpl)
    /\ prs' = StepLoop("parser", prs)
    /\ UNCHANGED <<templateOutcome, rendered>>

\* The loop ends, and the call returns.
EndOfScan ==
    /\ tpl.pc = "loop" /\ prs.pc = "loop"
    /\ ~Scan(tpl.scanner, tpl.processedStr).ok
    /\ ~Scan(prs.scanner, prs.processedStr).ok
    /\ tpl' = StepLoop("template", tpl)
    /\ prs' = StepLoop("parser", prs)
    /\ UNCHANGED <<templateOutcome, rendered>>

Next ==
    \/ ParseTemplate
    \/ ExecuteTemplate
    \/ SkipFirstLine
    \/ NoFirstLine
    \/ ScanLine
    \/ EndOfScan

Spec == Init /\ [][Next]_vars

\* The two calls move together: same position, same scanner.  With this
\* invariant the paired guards of the actions above lose no behaviour.
LockStep == tpl.pc = prs.pc /\ tpl.scanner = prs.scanner

(***************************************************************************)
(* What the specification says of a rendered text, stated on the text      *)
(* itself: its lines, which of them are pseudo-header lines and regular    *)
(* header lines, and the names and values they carry.                      *)
(***************************************************************************)
RECURSIVE SeqOfSet(_)
\* The numbers of a finite set in increasing order.
SeqOfSet(S) == IF S = {} THEN <<>> ELSE <<Min(S)>> \o SeqOfSet(S \ {Min(S)})

Chars(s) == {s[i] : i \in 1..Len(s)}

\* The lines of a text: a newline ends a line, and the text after the last
\* newline, when there is any, is a last line.
SplitLines(text) ==
    LET nl  == SeqOfSet({i \in 1..Len(text) : text[i] = "\n"})
        n   == Len(nl)
        cnt == IF text = <<>> THEN 0 ELSE IF text[Len(text)] = "\n" THEN n ELSE n + 1
    IN  [j \in 1..cnt |->
            SubSeq(text, IF j = 1 THEN 1 ELSE nl[j - 1] + 1,
                         IF j <= n THEN nl[j] - 1 ELSE Len(text))]

\* The lines after the first line.
HeaderLines(text) ==
    LET ls == SplitLines(text) IN IF ls = <<>> THEN <<>> ELSE Tail(ls)

RECURSIVE BeforeNewline(_)
\* The text before the first newline (all of it when there is none).
BeforeNewline(s) ==
    IF s = <<>> \/ Head(s) = "\n" THEN <<>> ELSE <<Head(s)>> \o BeforeNewline(Tail(s))

White == {" ", "\t", "\n", "\r", "\f"}

RECURSIVE StripLeft(_)
StripLeft(s) == IF s # <<>> /\ Head(s) \in White THEN StripLeft(Tail(s)) ELSE s

RECURSIVE StripRight(_)
StripRight(s) ==
    IF s # <<>> /\ s[Len(s)] \in White THEN StripRight(SubSeq(s, 1, Len(s) - 1)) ELSE s

Strip(s) == StripRight(StripLeft(s))

RECURSIVE BeforeColon(_)
\* The text before the first colon (all of it when there is no colon).
BeforeColon(s) ==
    IF s = <<>> \/ Head(s) = ":" THEN <<>> ELSE <<Head(s)>> \o BeforeColon(Tail(s))

RECURSIVE AfterColon(_)
\* The text after the first colon (nothing when there is no colon).
AfterColon(s) ==
    IF s = <<>> THEN <<>> ELSE IF Head(s) = ":" THEN Tail(s) ELSE AfterColon(Tail(s))

IsPseudoLine(l) == Strip(l) # <<>> /\ Head(Strip(l)) = ":"
IsRegularLine(l) == Strip(l) # <<>> /\ Head(Strip(l)) # ":" /\ ":" \in Chars(l)

\* ':' followed by the trimmed text between the leading colon and the next
\* colon or the end of the line; and the value written after that.
PseudoNameOf(l) == <<":">> \o Strip(BeforeColon(Tail(Strip(l))))
PseudoValueOf(l) == Strip(AfterColon(Tail(Strip(l))))

\* The trimmed key, and the trimmed text after the first colon.
RegularKeyOf(l) == Strip(BeforeColon(l))
RegularValueOf(l) == Strip(AfterColon(l))

IsCookieLine(l) == IsRegularLine(l) /\ ToLower(RegularKeyOf(l)) = cookie
IsContentLengthLine(l) == IsRegularLine(l) /\ ToLower(RegularKeyOf(l)) = contentLength

PseudoLineIdx(ls) == {i \in 1..Len(ls) : IsPseudoLine(ls[i])}
RegularLineIdx(ls) == {i \in 1..Len(ls) : IsRegularLine(ls[i])}
CookieLineIdx(ls) == {i \in 1..Len(ls) : IsCookieLine(ls[i])}

\* The names of the pseudo-header lines among the lines ls, in line order.
ExpectedPseudoOrder(ls) ==
    LET ix == SeqOfSet(PseudoLineIdx(ls))
    IN  [j \in 1..Len(ix) |-> PseudoNameOf(ls[ix[j]])]

\* The keys of the regular header lines, in line order, without the second
\* and later cookie lines.
ExpectedRegularOrder(ls) ==
    LET ix == SeqOfSet({i \in RegularLineIdx(ls) :
                          ~(IsCookieLine(ls[i]) /\ \E j \in CookieLineIdx(ls) : j < i)})
    IN  [j \in 1..Len(ix) |-> RegularKeyOf(ls[ix[j]])]

\* The values of the regular header lines with key K among the lines ls, in
\* line order.
ExpectedValues(ls, K) ==
    LET ix == SeqOfSet({i \in RegularLineIdx(ls) : RegularKeyOf(ls[i]) = K})
    IN  [j \in 1..Len(ix) |-> RegularValueOf(ls[ix[j]])]

\* The list a returned header holds under a reserved key (none: empty).
OrderList(h, k) == IF k \in DOMAIN h THEN h[k] ELSE <<>>
PseudoOrderOf(st) == OrderList(st.headers.map, PHeaderOrderKey)
RegularOrderOf(st) == OrderList(st.headers.map, HeaderOrderKey)

\* The value map of a returned header: its entries but the reserved keys.
ValueKeys(h) == (DOMAIN h) \ {PHeaderOrderKey, HeaderOrderKey}

\* The call has returned a header structure.
Succeeded(st) == st.pc = "done" /\ st.err = NoErr /\ ~st.headers.isNil

Calls == {tpl, prs}

\* C1: on every text, the two order lists that ParseHeaderTemplate returns
\* (either implementation) are, in line order and as written, the names of
\* the pseudo-header lines after the first line, and the trimmed keys of the
\* regular header lines after the first line without the second and later
\* cookie lines; blank lines and lines without a colon add nothing.
C1_OrderListsRecordSequence ==
    \A st \in Calls :
        Succeeded(st) =>
            LET ls == HeaderLines(st.processedStr)
            IN  /\ PseudoOrderOf(st) = ExpectedPseudoOrder(ls)
                /\ RegularOrderOf(st) = ExpectedRegularOrder(ls)

\* A returned result with a pseudo-header, a cookie line and a later cookie
\* line that was left out.
C1_Witness ==
    /\ Succeeded(tpl) /\ Succeeded(prs)
    /\ Len(PseudoOrderOf(tpl)) >= 1
    /\ Len(RegularOrderOf(tpl)) >= 1
    /\ Cardinality(CookieLineIdx(HeaderLines(tpl.processedStr))) >= 2

\* C3: however many cookie lines in whatever casing, the regular-order list
\* holds at most one entry equal to "cookie" without regard to case, that
\* entry is the key of the first cookie line as written, at the place of
\* that line among the regular entries, and no key of the value map equals
\* "cookie" without regard to case.
C3_CookieOnceFirstCasing ==
    \A st \in Calls :
        Succeeded(st) =>
            LET R  == RegularOrderOf(st)
                ls == HeaderLines(st.processedStr)
                ck == CookieLineIdx(ls)
                at == {i \in 1..Len(R) : ToLower(R[i]) = cookie}
            IN  /\ Cardinality(at) <= 1
                /\ (ck = {}) <=> (at = {})
                /\ ck # {} =>
                     LET c   == Min(ck)
                         pos == Cardinality({j \in RegularLineIdx(ls) : j < c}) + 1
                     IN  at = {pos} /\ R[pos] = RegularKeyOf(ls[c])
                /\ \A k \in DOMAIN st.headers.map : ToLower(k) # cookie

\* Two cookie lines of different casing after another regular header.
C3_Witness ==
    /\ Succeeded(tpl) /\ Succeeded(prs)
    /\ LET ls == HeaderLines(tpl.processedStr)
           ck == CookieLineIdx(ls)
       IN  /\ Cardinality(ck) >= 2
           /\ \E i \in ck, j \in ck : RegularKeyOf(ls[i]) # RegularKeyOf(ls[j])
           /\ \E j \in RegularLineIdx(ls) : j < Min(ck)

\* C4: in src/template.go, no key of the value map equals "content-length"
\* without regard to case, and the regular-order list holds one entry, in
\* the line's own casing, for every content-length line, with no
\* deduplication.
C4_ContentLengthOrderOnly ==
    Succeeded(tpl) =>
        LET R  == RegularOrderOf(tpl)
            ls == HeaderLines(tpl.processedStr)
            cl == SeqOfSet({i \in 1..Len(ls) : IsContentLengthLine(ls[i])})
            at == SeqOfSet({i \in 1..Len(R) : ToLower(R[i]) = contentLength})
        IN  /\ \A k \in DOMAIN tpl.headers.map : ToLower(k) # contentLength
            /\ Len(at) = Len(cl)
            /\ \A j \in 1..Len(cl) : R[at[j]] = RegularKeyOf(ls[cl[j]])

\* Two content-length lines of different casing.
C4_Witness ==
    /\ Succeeded(tpl)
    /\ LET ls == HeaderLines(tpl.processedStr)
           cl == {i \in 1..Len(ls) : IsContentLengthLine(ls[i])}
       IN  /\ Cardinality(cl) >= 2
           /\ \E i \in cl, j \in cl : RegularKeyOf(ls[i]) # RegularKeyOf(ls[j])

\* The strings a header structure holds: its keys and all its list elements.
StringsOf(h) == (DOMAIN h) \cup UNION {{h[k][i] : i \in 1..Len(h[k])} : k \in DOMAIN h}

\* C5: every name of the pseudo-order list starts with ':', no key of the
\* value map starts with ':' (during the scan and in the result), and the
\* value written after a pseudo-header name is nowhere in the output.
C5_PseudoNamesOnlyInOrder ==
    \A st \in Calls :
        /\ \A k \in DOMAIN st.outputHeaders : Head(k) # ":"
        /\ \A i \in 1..Len(st.pseudoHeaderOrder) : Head(st.pseudoHeaderOrder[i]) = ":"
        /\ Succeeded(st) =>
             LET P  == PseudoOrderOf(st)
                 ls == HeaderLines(st.processedStr)
             IN  /\ \A i \in 1..Len(P) : Head(P[i]) = ":"
                 /\ \A k \in DOMAIN st.headers.map : Head(k) # ":"
                 /\ \A i \in PseudoLineIdx(ls) :
                      PseudoValueOf(ls[i]) # <<>> =>
                          PseudoValueOf(ls[i]) \notin StringsOf(st.headers.map)

\* A pseudo-header line with a value, next to a regular header.
C5_Witness ==
    /\ Succeeded(tpl) /\ Succeeded(prs)
    /\ ValueKeys(tpl.headers.map) # {}
    /\ LET ls == HeaderLines(tpl.processedStr)
       IN  \E i \in PseudoLineIdx(ls) : PseudoValueOf(ls[i]) # <<>>

\* The lines that the scanner can read: shorter than its token limit.
Readable(l) == Len(l) < MaxScanTokenSize

FirstLineComplete(text) == "\n" \in Chars(text)
FirstLineOf(text) == BeforeNewline(text)
\* The text after the newline of the first line.
BodyOf(text) == SubSeq(text, Len(BeforeNewline(text)) + 2, Len(text))
WithFirstLine(f, text) == f \o <<"\n">> \o BodyOf(text)

\* C2 as claimed: two rendered texts that differ only in their (complete)
\* first line yield the same value map and the same order lists, whatever
\* the first line is.
C2_FirstLineNeverMatters ==
    \A impl \in {"template", "parser"} :
        LET st == IF impl = "template" THEN tpl ELSE prs
        IN  (st.pc = "done" /\ templateOutcome = "ok" /\ FirstLineComplete(st.processedStr)) =>
                \A f \in FirstLines \ {FirstLineOf(st.processedStr)} :
                    Call(impl, WithFirstLine(f, st.processedStr)).headers.map = st.headers.map

\* C2 as amended: two rendered texts that differ only in their (complete)
\* first line yield the same result (the same value map and order lists, or
\* the same failure on a later line) provided both first lines are shorter
\* than the scanner's token limit, even when a first line has the shape of a
\* header or pseudo-header line.
C2_ReadableFirstLineNeverMatters ==
    \A impl \in {"template", "parser"} :
        LET st == IF impl = "template" THEN tpl ELSE prs
        IN  (/\ st.pc = "done" /\ templateOutcome = "ok"
             /\ FirstLineComplete(st.processedStr)
             /\ Readable(FirstLineOf(st.processedStr))) =>
                \A f \in {g \in FirstLines : Readable(g)} \ {FirstLineOf(st.processedStr)} :
                    LET other == Call(impl, WithFirstLine(f, st.processedStr))
                    IN  other.headers = st.headers /\ other.err = st.err

\* A text whose first line has the shape of a header line, and whose body
\* gives a value entry and both order lists.
C2_Witness ==
    /\ Succeeded(tpl) /\ Succeeded(prs)
    /\ FirstLineComplete(tpl.processedStr)
    /\ IsRegularLine(FirstLineOf(tpl.processedStr))
    /\ ValueKeys(tpl.headers.map) # {}
    /\ PseudoOrderOf(tpl) # <<>> /\ RegularOrderOf(tpl) # <<>>

Suppressed(K) == ToLower(K) \in {cookie, contentLength}

\* C6: for every regular header key K that is not a suppressed name, the
\* values stored under K are, in line order, the trimmed text after the
\* first colon of each line whose trimmed key is exactly K: later colons stay
\* in the value, a line ending in its colon gives the empty string, repeated
\* keys accumulate, keys differing only in case have separate entries.
C6_ValuesPerExactKey ==
    \A st \in Calls :
        Succeeded(st) =>
            LET ls == HeaderLines(st.processedStr)
            IN  \A i \in RegularLineIdx(ls) :
                    LET K == RegularKeyOf(ls[i])
                    IN  ~Suppressed(K) =>
                            /\ K \in DOMAIN st.headers.map
                            /\ st.headers.map[K] = ExpectedValues(ls, K)

\* A key with two values, one of them empty, and a key differing only in
\* case whose value holds a colon.
C6_Witness ==
    /\ Succeeded(tpl) /\ Succeeded(prs)
    /\ \E K \in ValueKeys(tpl.headers.map), J \in ValueKeys(tpl.headers.map) :
          /\ K # J /\ ToLower(K) = ToLower(J)
          /\ Len(tpl.headers.map[K]) = 2
          /\ \E i \in 1..2 : tpl.headers.map[K][i] = <<>>
          /\ \E i \in 1..Len(tpl.headers.map[J]) : ":" \in Chars(tpl.headers.map[J][i])

\* The order lists a successful return carries, as the text determines them.
ReservedKeysAsCollected(st) ==
    /\ (PHeaderOrderKey \in DOMAIN st.headers.map)
          <=> (PseudoLineIdx(HeaderLines(st.processedStr)) # {})
    /\ (HeaderOrderKey \in DOMAIN st.headers.map)
          <=> (ExpectedRegularOrder(HeaderLines(st.processedStr)) # <<>>)
    /\ \A k \in {PHeaderOrderKey, HeaderOrderKey} :
          k \in DOMAIN st.headers.map => st.headers.map[k] # <<>>

OnlyRequestLine(text) == Len(SplitLines(text)) <= 1

\* C7 as claimed: on a successful return each reserved key is present
\* exactly when its list received an entry, never with an empty list; and
\* for an empty text or a text holding only the request line the result is
\* an empty map with no error.
C7_ReservedKeysIffCollected ==
    \A st \in Calls :
        /\ Succeeded(st) => ReservedKeysAsCollected(st)
        /\ (st.pc = "done" /\ templateOutcome = "ok" /\ OnlyRequestLine(st.processedStr)) =>
              st.err = NoErr /\ st.headers = Returned(EmptyHeader)

\* C7 as amended: the same, the last part for an empty text or a text
\* holding only a request line shorter than the scanner's token limit.
C7_ReservedKeysIffCollectedReadable ==
    \A st \in Calls :
        /\ Succeeded(st) => ReservedKeysAsCollected(st)
        /\ (/\ st.pc = "done" /\ templateOutcome = "ok"
            /\ OnlyRequestLine(st.processedStr)
            /\ \A i \in 1..Len(SplitLines(st.processedStr)) :
                  Readable(SplitLines(st.processedStr)[i])) =>
              st.err = NoErr /\ st.headers = Returned(EmptyHeader)

\* A template of pseudo-headers only: one reserved key present, one absent.
C7_Witness ==
    /\ Succeeded(tpl) /\ Succeeded(prs)
    /\ PHeaderOrderKey \in DOMAIN tpl.headers.map
    /\ HeaderOrderKey \notin DOMAIN tpl.headers.map
    /\ Len(HeaderLines(tpl.processedStr)) >= 2

\* C8: a call that returns an error returns a nil header, also when entries
\* had been accumulated; when the template fails to parse or to execute no
\* line is scanned; and only a line the scanner cannot read makes a rendered
\* text fail, a blank or colon-less line never does.
C8_ErrorsAreTerminal ==
    \A st \in Calls :
        /\ (st.pc = "done" /\ st.err # NoErr) => st.headers = NilHeader
        /\ templateOutcome # "ok" =>
              /\ st.pc \in {"parse", "execute", "done"}
              /\ st.scanner = NewScanner
              /\ st.pc = "done" => st.err # NoErr
        /\ (st.pc = "done" /\ templateOutcome = "ok" /\ st.err # NoErr) =>
              \E i \in 1..Len(SplitLines(st.processedStr)) :
                  ~Readable(SplitLines(st.processedStr)[i])

\* A scan failure on a later line, after entries had been accumulated and a
\* blank line had been passed.
C8_Witness ==
    /\ tpl.pc = "done" /\ tpl.err = "error scanning lines from processed template"
    /\ tpl.headers = NilHeader /\ prs.headers = NilHeader
    /\ tpl.regularHeaderOrder # <<>> /\ DOMAIN tpl.outputHeaders # {}
    /\ \E i \in 1..Len(HeaderLines(tpl.processedStr)) :
          Strip(HeaderLines(tpl.processedStr)[i]) = <<>>

\* The keys, as written, of the content-length lines of a text.
ContentLengthKeys(text) ==
    {RegularKeyOf(HeaderLines(text)[i]) :
        i \in {j \in 1..Len(HeaderLines(text)) : IsContentLengthLine(HeaderLines(text)[j])}}

\* C9: side by side on the same rendered text, the two implementations
\* return the same error, the same pseudo-order list and the same
\* regular-order list, and equal value maps except that the map of parser.go
\* also holds each content-length key as written with its accumulated
\* values; without a content-length line the two results are identical.
C9_ImplementationsAgreeButContentLength ==
    (tpl.pc = "done" /\ prs.pc = "done") =>
        /\ tpl.err = prs.err
        /\ tpl.headers.isNil = prs.headers.isNil
        /\ PseudoOrderOf(tpl) = PseudoOrderOf(prs)
        /\ RegularOrderOf(tpl) = RegularOrderOf(prs)
        /\ LET T  == tpl.headers.map
               P  == prs.headers.map
               CL == IF Succeeded(prs) THEN ContentLengthKeys(prs.processedStr) ELSE {}
           IN  /\ DOMAIN P = (DOMAIN T) \cup CL
               /\ (DOMAIN T) \cap CL = {}
               /\ \A k \in DOMAIN T : P[k] = T[k]
               /\ \A k \in CL : P[k] = ExpectedValues(HeaderLines(prs.processedStr), k)
               /\ CL = {} => tpl.headers = prs.headers

\* A text with two content-length lines and another regular header.
C9_Witness ==
    /\ Succeeded(tpl) /\ Succeeded(prs)
    /\ ValueKeys(tpl.headers.map) # {}
    /\ \E k \in ContentLengthKeys(prs.processedStr) : Len(prs.headers.map[k]) >= 1
    /\ Cardinality(ContentLengthKeys(prs.processedStr)) = 2

Count(R, k) == Cardinality({i \in 1..Len(R) : R[i] = k})

\* A list without the later repeats of its elements.
Dedup(R) ==
    LET ix == SeqOfSet({i \in 1..Len(R) : \A j \in 1..(i - 1) : R[j] # R[i]})
    IN  [j \in 1..Len(ix) |-> R[ix[j]]]

PlainText(text) ==
    \A i \in 1..Len(HeaderLines(text)) :
        LET l == HeaderLines(text)[i]
        IN  ~IsPseudoLine(l) /\ ~IsCookieLine(l) /\ ~IsContentLengthLine(l)

\* C10: after every processed line of the scan of src/template.go, every
\* name of the regular-order list that is not cookie or content-length is a
\* key of the value map and occurs in the list as often as it has values,
\* every key of the value map occurs in the list, and for a text without
\* pseudo-headers and suppressed names the list without its later repeats
\* is the keys of the value map in the order of their first insertion.
C10_OrderListMatchesMap ==
    tpl.pc = "loop" =>
        LET R == tpl.regularHeaderOrder
            M == tpl.outputHeaders
        IN  /\ \A i \in 1..Len(R) :
                  ~Suppressed(R[i]) => R[i] \in DOMAIN M /\ Count(R, R[i]) = Len(M[R[i]])
            /\ \A k \in DOMAIN M : Count(R, k) >= 1
            /\ Chars(tpl.insertionOrder) = DOMAIN M
            /\ Len(tpl.insertionOrder) = Cardinality(DOMAIN M)
            /\ PlainText(tpl.processedStr) => Dedup(R) = tpl.insertionOrder

\* During the scan of a text without pseudo-headers and suppressed names,
\* after a key came a second time and another key in between.
C10_Witness ==
    /\ tpl.pc = "loop"
    /\ PlainText(tpl.processedStr)
    /\ Len(tpl.regularHeaderOrder) = 3
    /\ Len(tpl.insertionOrder) = 2
    /\ tpl.regularHeaderOrder[1] = tpl.regularHeaderOrder[3]
====
